---- MODULE Spec2Model ----
(***************************************************************************)
(* go.silly (src/go/src/main.rs): an alias -> URL shortener on one LMDB    *)
(* environment (heed), served by axum on tokio.                            *)
(*                                                                         *)
(*   main     creates a temporary directory, opens the environment in it,  *)
(*            creates the named database "requests" in a write             *)
(*            transaction, commits and serves;                             *)
(*   root     GET /{alias}: read transaction, get, redirect;               *)
(*   shorten  POST /: spawn_blocking { write transaction, put, commit },   *)
(*            await the task, answer 201 Created.                          *)
(*                                                                         *)
(* logging_middleware (lines 65-78) only logs around the handler and has   *)
(* no effect on the state modelled here.                                   *)
(*                                                                         *)
(* The store is modelled by what LMDB gives the program: a read            *)
(* transaction sees the committed table as of its begin; a write           *)
(* transaction works on a private copy that commit publishes atomically;   *)
(* write_txn() blocks on the environment's writer mutex; dropping an       *)
(* uncommitted transaction aborts it; put rejects a zero-length key with   *)
(* MDB_BAD_VALSIZE and accepts a zero-length value.                        *)
(***************************************************************************)
EXTENDS Naturals, Integers, Sequences, FiniteSets

\* The number of requests the clients send over the whole run.
MaxReqs == 3

\* The number of times the process is stopped and started again.
MaxRestarts == 1

\* The number of store calls that fail.
MaxFaults == 1

\* The positions of the requests in flight.
Reqs == 1..MaxReqs

\* The directories tempfile::tempdir() hands out, one per process start.
Dirs == 1..(MaxRestarts + 1)

\* CreateShortUrl.alias and CreateShortUrl.url are arbitrary JSON strings,
\* the empty string included.
Aliases == {"", "a", "b"}

Urls == {"", "x", "y"}

\* The bodies POSTed: two destinations for one alias, a second alias with an
\* empty url, and an empty alias.
Payloads ==
  {[alias |-> "a", url |-> "x"], [alias |-> "a", url |-> "y"],
   [alias |-> "b", url |-> ""], [alias |-> "", url |-> "x"]}

\* Path(alias) of the route "/{alias}": a path segment, never empty.
PathAliases == Aliases \ {""}

\* Option::None of db.get.
Absent == "<none>"

EmptyTable == [k \in Aliases |-> Absent]

VARIABLES
  proc,   \* main's position: "start", "opened", "wtxn", "dbcreated", "serving",
          \* "failed"
  dir,    \* the directory of the running process' environment (0: none yet)
  disk,   \* per directory: is the named database there, and its committed records
  reqs,   \* the requests in flight, in the order they arrived: per request
          \* the handler's and the blocking task's state
  arrived,\* the number of requests received so far
  sent,   \* the outcome the running process delivered last, with its request
  acked,  \* history: per alias, the urls a create of the running process
          \* answered "created" for
  first,  \* history: per alias, the url the running process committed for it
          \* when the table did not hold it
  clean,  \* history: no request was in flight when the process last stopped
  faults, \* the number of store calls that have failed
  readers,\* the read transactions open in the environment (its reader slots
          \* in use)
  last,   \* history: per alias, the url of the create of the running process
          \* whose write transaction committed last
  found   \* history: the aliases a resolve of the running process was
          \* answered a stored url for

vars ==
  <<proc, dir, disk, reqs, arrived, sent, acked, first, clean, faults,
    readers, last, found>>

\* The variables only root's read path and the commit of a create change.
marks == <<readers, last, found>>

----------------------------------------------------------------------------
\* Responses, as the client sees them.

NoResponse == [status |-> "none", location |-> "", alias |-> "", url |-> ""]

\* Redirect::temporary(uri)
Redirect(uri) == [status |-> "temporary_redirect", location |-> uri, alias |-> "", url |-> ""]

\* (StatusCode::CREATED, Json(ShortUrl { url, alias, error: None }))
Created(alias, url) == [status |-> "created", location |-> "", alias |-> alias, url |-> url]

\* The handler panicked: the connection is closed without a response.
Panicked == [status |-> "panicked", location |-> "", alias |-> "", url |-> ""]

\* A request: kind, alias and url are its input; pc is the handler's position
\* ("rtxn": root holds its read transaction, "awaiting": shorten awaits its
\* task), task the blocking task's ("none", "queued", "wtxn", "put",
\* "finished", "panicked"), txn the view of its transaction, err the store
\* call that returned Err ("" for none, "read_txn", "get", "write_txn",
\* "put", "commit"). History: begin is the committed table when its read
\* transaction began, seen the urls acked for its alias when it arrived.
NewReq ==
  [kind |-> "none", alias |-> "", url |-> "", pc |-> "new", task |-> "none",
   txn |-> EmptyTable, err |-> "", begin |-> EmptyTable, seen |-> {}]

\* An answered request leaves the process: those behind it move up.
Remove(r) ==
  [i \in 1..(Len(reqs) - 1) |-> IF i < r THEN reqs[i] ELSE reqs[i + 1]]

NothingSent ==
  [kind |-> "none", alias |-> "", url |-> "", resp |-> NoResponse,
   err |-> "", begin |-> EmptyTable, seen |-> {}]

\* The outcome of request q: its response, and the store call that failed.
Outcome(q, resp) ==
  [kind |-> q.kind, alias |-> q.alias, url |-> q.url, resp |-> resp,
   err |-> q.err, begin |-> q.begin, seen |-> q.seen]

----------------------------------------------------------------------------
\* The store.

\* The committed records of the running process' environment.
Committed == disk[dir].kv

\* tempfile::tempdir(): a directory that did not exist before.
TempDir == dir + 1

\* env.read_txn(): the snapshot a read transaction works on.
ReadSnapshot == Committed

\* A lookup that reads the table as it is now, not as the transaction began.
ReadLatest(r) == disk[dir].kv

\* What the lookups of the read transaction of request r read.
ReadView(r) == reqs[r].txn

\* A lookup that positions on the first key at or after the one asked for.
DbGetRange(t, key) == IF t[key] = Absent /\ key = "a" THEN t["b"] ELSE t[key]

\* env.read_txn() takes a reader slot of the environment.
BeginRtxn(n) == n + 1

\* A handler that returns without its read transaction being ended.
LeakRtxn(n) == n

\* rtxn goes out of scope when root returns: RoTxn's drop ends the
\* transaction and frees its reader slot.
DropRtxn(n) == n - 1

\* db.get(&rtxn, &alias) on a transaction's view.
DbGet(t, key) == t[key]

\* db.put(&mut wtxn, key, val): mdb_put refuses a zero-length key.
DbPutOk(key) == key # ""

\* A put that keeps the record a key already has (MDB_NOOVERWRITE).
DbPutIfAbsent(t, key, val) == IF t[key] = Absent THEN [t EXCEPT ![key] = val] ELSE t

\* A put into a table that was cleared first.
DbPutReplacing(t, key, val) == [EmptyTable EXCEPT ![key] = val]

DbPut(t, key, val) == [t EXCEPT ![key] = val]

\* A write transaction is live from write_txn() until commit or drop.
InWriteTxn(r) == r \in DOMAIN reqs /\ reqs[r].task \in {"wtxn", "put"}

MainInWriteTxn == proc \in {"wtxn", "dbcreated"}

\* A writer lock that the requests' transactions do not take.
WriterFreeOfMain == ~MainInWriteTxn

\* A writer mutex that stays locked once a store call has failed.
WriterFreeBeforeFault ==
  /\ ~MainInWriteTxn
  /\ \A r \in Reqs : ~InWriteTxn(r)
  /\ faults = 0

\* env.write_txn() returns only when no other write transaction is live.
WriterFree == ~MainInWriteTxn /\ \A r \in Reqs : ~InWriteTxn(r)

\* The match of root on db.get's result.
RootResponse(v) == IF v = Absent THEN Redirect("/") ELSE Redirect(v)

\* A handler that ignores the JoinError of its task.
JoinResponseIgnoringPanic(task, alias, url) == Created(alias, url)

\* .await.expect("Blocking task panicked"); (StatusCode::CREATED, Json(url))
JoinResponse(task, alias, url) ==
  IF task = "finished" THEN Created(alias, url) ELSE Panicked

\* A server that accepts requests as soon as the environment is open.
AcceptingEarly ==
  /\ proc \in {"opened", "wtxn", "dbcreated", "serving"}
  /\ arrived < MaxReqs

\* axum::serve accepts a request.
Accepting ==
  /\ proc = "serving"
  /\ arrived < MaxReqs

----------------------------------------------------------------------------
\* main

Init ==
  /\ proc = "start"
  /\ dir = 0
  /\ disk = [d \in Dirs |-> [named |-> FALSE, kv |-> EmptyTable]]
  /\ reqs = <<>>
  /\ arrived = 0
  /\ sent = NothingSent
  /\ acked = [a \in Aliases |-> {}]
  /\ first = EmptyTable
  /\ clean = TRUE
  /\ faults = 0
  /\ readers = 0
  /\ last = EmptyTable
  /\ found = {}

\* let path = tempfile::tempdir()?; EnvOpenOptions::new().max_dbs(1).open(path)?
Main_Open ==
  /\ proc = "start"
  /\ TempDir \in Dirs
  /\ dir' = TempDir
  /\ proc' = "opened"
  /\ UNCHANGED <<disk, reqs, arrived, sent, acked, first, clean, faults, marks>>

\* let mut wtxn = env.write_txn()?;
Main_WriteTxn ==
  /\ proc = "opened"
  /\ WriterFree
  /\ proc' = "wtxn"
  /\ UNCHANGED <<dir, disk, reqs, arrived, sent, acked, first, clean, faults, marks>>

\* env.create_database(&mut wtxn, Some("requests"))?
Main_CreateDatabase ==
  /\ proc = "wtxn"
  /\ proc' = "dbcreated"
  /\ UNCHANGED <<dir, disk, reqs, arrived, sent, acked, first, clean, faults, marks>>

\* wtxn.commit()?; ... axum::serve(listener, app)
Main_Commit ==
  /\ proc = "dbcreated"
  /\ disk' = [disk EXCEPT ![dir].named = TRUE]
  /\ proc' = "serving"
  /\ UNCHANGED <<dir, reqs, arrived, sent, acked, first, clean, faults, marks>>

\* The process is stopped (axum::serve never returns by itself) and started
\* again later: the handlers, the blocking tasks and their transactions are
\* gone with it.
Shutdown ==
  /\ proc = "serving"
  /\ dir <= MaxRestarts
  /\ proc' = "start"
  /\ reqs' = <<>>
  /\ sent' = NothingSent
  /\ acked' = [a \in Aliases |-> {}]
  /\ first' = EmptyTable
  /\ clean' = (reqs = <<>>)
  /\ UNCHANGED <<dir, disk, arrived, faults>>
  /\ readers' = 0
  /\ last' = EmptyTable
  /\ found' = {}

----------------------------------------------------------------------------
\* root: GET /{alias}

\* let rtxn = env.read_txn().unwrap();
Root_ReadTxn(alias) ==
  /\ Accepting
  /\ arrived' = arrived + 1
  /\ reqs' = Append(reqs,
       [NewReq EXCEPT !.kind = "resolve", !.alias = alias, !.pc = "rtxn",
                      !.txn = ReadSnapshot, !.begin = Committed,
                      !.seen = acked[alias]])
  /\ UNCHANGED <<proc, dir, disk, sent, acked, first, clean, faults, last, found>>
  /\ readers' = BeginRtxn(readers)

\* A lookup that stores the default page for an alias it did not find.
Root_GetStoring(r) ==
  /\ r \in DOMAIN reqs
  /\ reqs[r].pc = "rtxn"
  /\ sent' = Outcome(reqs[r], RootResponse(DbGet(ReadView(r), reqs[r].alias)))
  /\ reqs' = Remove(r)
  /\ disk' = IF DbGet(ReadView(r), reqs[r].alias) = Absent
               THEN [disk EXCEPT ![dir].kv[reqs[r].alias] = "/"]
               ELSE disk
  /\ readers' = DropRtxn(readers)
  /\ found' = IF DbGet(ReadView(r), reqs[r].alias) = Absent
                THEN found
                ELSE found \cup {reqs[r].alias}
  /\ UNCHANGED <<proc, dir, arrived, acked, first, clean, faults, last>>

\* match db.get(&rtxn, &alias) { Ok(Some(value)) => ..., Ok(None) => ... };
\* rtxn is dropped when the handler returns.
Root_Get(r) ==
  /\ r \in DOMAIN reqs
  /\ reqs[r].pc = "rtxn"
  /\ sent' = Outcome(reqs[r], RootResponse(DbGet(ReadView(r), reqs[r].alias)))
  /\ reqs' = Remove(r)
  /\ UNCHANGED <<proc, dir, arrived, disk, acked, first, clean, faults, last>>
  /\ readers' = DropRtxn(readers)
  /\ found' = IF DbGet(ReadView(r), reqs[r].alias) = Absent
                THEN found
                ELSE found \cup {reqs[r].alias}

----------------------------------------------------------------------------
\* shorten: POST /

\* Builds ShortUrl, clones key and val, tokio::task::spawn_blocking(...)
Shorten_Spawn(alias, url) ==
  /\ Accepting
  /\ arrived' = arrived + 1
  /\ reqs' = Append(reqs,
       [NewReq EXCEPT !.kind = "create", !.alias = alias, !.url = url,
                      !.pc = "awaiting", !.task = "queued",
                      !.seen = acked[alias]])
  /\ UNCHANGED <<proc, dir, disk, sent, acked, first, clean, faults, marks>>

\* let mut wtxn = env.write_txn().expect(...)
Task_WriteTxn(r) ==
  /\ r \in DOMAIN reqs
  /\ reqs[r].task = "queued"
  /\ WriterFree
  /\ reqs' = [reqs EXCEPT ![r].task = "wtxn", ![r].txn = Committed]
  /\ UNCHANGED <<proc, dir, arrived, disk, sent, acked, first, clean, faults, marks>>

\* db.put(&mut wtxn, key, val).expect("Failed to write to DB"): on Err the
\* task panics and the unwinding drops wtxn, which aborts it.
Task_Put(r) ==
  /\ r \in DOMAIN reqs
  /\ reqs[r].task = "wtxn"
  /\ reqs' = IF DbPutOk(reqs[r].alias)
               THEN [reqs EXCEPT ![r].task = "put",
                                 ![r].txn = DbPut(reqs[r].txn, reqs[r].alias, reqs[r].url)]
               ELSE [reqs EXCEPT ![r].task = "panicked", ![r].err = "put",
                                 ![r].txn = EmptyTable]
  /\ UNCHANGED <<proc, dir, arrived, disk, sent, acked, first, clean, faults, marks>>

\* wtxn.commit().expect("Failed to commit transaction")
Task_Commit(r) ==
  /\ r \in DOMAIN reqs
  /\ reqs[r].task = "put"
  /\ disk' = [disk EXCEPT ![dir].kv = reqs[r].txn]
  /\ first' = IF first[reqs[r].alias] = Absent /\ Committed[reqs[r].alias] = Absent
                THEN [first EXCEPT ![reqs[r].alias] = reqs[r].url]
                ELSE first
  /\ reqs' = [reqs EXCEPT ![r].task = "finished", ![r].txn = EmptyTable]
  /\ UNCHANGED <<proc, dir, arrived, sent, acked, clean, faults, readers, found>>
  /\ last' = [last EXCEPT ![reqs[r].alias] = reqs[r].url]

\* .await.expect("Blocking task panicked"); (StatusCode::CREATED, Json(url))
Shorten_Join(r) ==
  /\ r \in DOMAIN reqs
  /\ reqs[r].pc = "awaiting"
  /\ reqs[r].task \in {"finished", "panicked"}
  /\ sent' = Outcome(reqs[r], JoinResponse(reqs[r].task, reqs[r].alias, reqs[r].url))
  /\ acked' = IF sent'.resp.status = "created"
                THEN [acked EXCEPT ![reqs[r].alias] = @ \cup {reqs[r].url}]
                ELSE acked
  /\ reqs' = Remove(r)
  /\ UNCHANGED <<proc, dir, arrived, disk, first, clean, faults, marks>>

----------------------------------------------------------------------------
\* The caller abandons a create.

\* A cancellation that also stops the blocking task and drops its transaction.
AbortOnCancel(q) ==
  [q EXCEPT !.pc = "cancelled", !.task = "panicked", !.txn = EmptyTable]

\* The future of shorten is dropped at its .await, and with it the
\* JoinHandle: the blocking task is detached and runs on.
Detach(q) == [q EXCEPT !.pc = "cancelled"]

\* The connection is closed while shorten awaits its task.
Cancel(r) ==
  /\ r \in DOMAIN reqs
  /\ reqs[r].pc = "awaiting"
  /\ reqs' = [reqs EXCEPT ![r] = Detach(reqs[r])]
  /\ UNCHANGED <<proc, dir, disk, arrived, sent, acked, first, clean, faults, marks>>

\* The closure of a detached task has returned or panicked: its result is
\* discarded and nothing of the request is left.
Task_Exit(r) ==
  /\ r \in DOMAIN reqs
  /\ reqs[r].pc = "cancelled"
  /\ reqs[r].task \in {"finished", "panicked"}
  /\ reqs' = Remove(r)
  /\ UNCHANGED <<proc, dir, disk, arrived, sent, acked, first, clean, faults, marks>>

----------------------------------------------------------------------------
\* Storage failures: any store call may return Err.

Failing ==
  /\ faults < MaxFaults
  /\ faults' = faults + 1

\* One of the ?s of main after the directory was made (lines 45, 48, 49, 50):
\* main returns Err and the process ends; an uncommitted transaction is dropped.
Main_Fail ==
  /\ proc \in {"opened", "wtxn", "dbcreated"}
  /\ Failing
  /\ proc' = "failed"
  /\ UNCHANGED <<dir, disk, reqs, arrived, sent, acked, first, clean, marks>>

\* env.read_txn() is Err: unwrap() panics in the handler.
Root_ReadTxnFail(alias) ==
  /\ Accepting
  /\ Failing
  /\ arrived' = arrived + 1
  /\ sent' = Outcome([NewReq EXCEPT !.kind = "resolve", !.alias = alias,
                                    !.err = "read_txn", !.seen = acked[alias]],
                     Panicked)
  /\ UNCHANGED <<proc, dir, disk, reqs, acked, first, clean, marks>>

\* db.get is Err(error): info!("Database read error"), Redirect::temporary("/")
Root_GetFail(r) ==
  /\ r \in DOMAIN reqs
  /\ reqs[r].pc = "rtxn"
  /\ Failing
  /\ sent' = Outcome([reqs[r] EXCEPT !.err = "get"], Redirect("/"))
  /\ reqs' = Remove(r)
  /\ UNCHANGED <<proc, dir, arrived, disk, acked, first, clean, last, found>>
  /\ readers' = DropRtxn(readers)

\* env.write_txn() is Err: expect("Failed to create write transaction") panics.
Task_WriteTxnFail(r) ==
  /\ r \in DOMAIN reqs
  /\ reqs[r].task = "queued"
  /\ Failing
  /\ reqs' = [reqs EXCEPT ![r].task = "panicked", ![r].err = "write_txn"]
  /\ UNCHANGED <<proc, dir, arrived, disk, sent, acked, first, clean, marks>>

\* db.put is Err for a storage reason: expect("Failed to write to DB") panics
\* and the unwinding drops wtxn.
Task_PutFail(r) ==
  /\ r \in DOMAIN reqs
  /\ reqs[r].task = "wtxn"
  /\ Failing
  /\ reqs' = [reqs EXCEPT ![r].task = "panicked", ![r].err = "put",
                          ![r].txn = EmptyTable]
  /\ UNCHANGED <<proc, dir, arrived, disk, sent, acked, first, clean, marks>>

\* wtxn.commit() is Err: nothing is published; expect("Failed to commit
\* transaction") panics.
Task_CommitFail(r) ==
  /\ r \in DOMAIN reqs
  /\ reqs[r].task = "put"
  /\ Failing
  /\ reqs' = [reqs EXCEPT ![r].task = "panicked", ![r].err = "commit",
                          ![r].txn = EmptyTable]
  /\ UNCHANGED <<proc, dir, arrived, disk, sent, acked, first, clean, marks>>

----------------------------------------------------------------------------
Startup ==
  \/ Main_Open
  \/ Main_WriteTxn
  \/ Main_CreateDatabase
  \/ Main_Commit

Serve ==
  \/ \E a \in PathAliases : Root_ReadTxn(a)
  \/ \E r \in Reqs : Root_Get(r)
  \/ \E p \in Payloads : Shorten_Spawn(p.alias, p.url)
  \/ \E r \in Reqs : Task_WriteTxn(r)
  \/ \E r \in Reqs : Task_Put(r)
  \/ \E r \in Reqs : Task_Commit(r)
  \/ \E r \in Reqs : Shorten_Join(r)

Next == Startup \/ Serve \/ Shutdown

\* The program on a store that does not fail, stopped and started again.
Spec == Init /\ [][Next]_vars

Fault ==
  \/ Main_Fail
  \/ \E a \in PathAliases : Root_ReadTxnFail(a)
  \/ \E r \in Reqs : Root_GetFail(r)
  \/ \E r \in Reqs : Task_WriteTxnFail(r)
  \/ \E r \in Reqs : Task_PutFail(r)
  \/ \E r \in Reqs : Task_CommitFail(r)

NextFault == Startup \/ Serve \/ Fault

\* One run of the program on a store whose calls can fail.
FaultSpec == Init /\ [][NextFault]_vars

\* A step of the blocking pool: one of the spawn_blocking closures advances.
TaskStep ==
  \E r \in Reqs :
    Task_WriteTxn(r) \/ Task_Put(r) \/ Task_Commit(r) \/ Task_Exit(r)

\* A step of the runtime: a handler that can continue is polled.
HandlerStep == \E r \in Reqs : Root_Get(r) \/ Shorten_Join(r)

Abandon ==
  \/ \E r \in Reqs : Cancel(r)
  \/ \E r \in Reqs : Task_Exit(r)

NextCancel == Startup \/ Serve \/ Abandon

\* One run of the program on a store that does not fail, with callers that
\* may abandon their creates; the threads of the blocking pool keep running.
CancelSpec == Init /\ [][NextCancel]_vars /\ WF_vars(TaskStep)

\* One run of the program on a store whose calls can fail; the threads of
\* the blocking pool keep running and the runtime polls its handlers.
LiveSpec ==
  Init /\ [][NextFault]_vars /\ WF_vars(TaskStep) /\ WF_vars(HandlerStep)

----------------------------------------------------------------------------
\* The claims.

\* C1: once a create of an alias has been answered "created", a later create
\* of the same alias with another url is answered "conflict" and the alias
\* still maps to the first url.
C1_LaterCreateIsRejected ==
  \A d1 \in Urls :
    (sent.kind = "create" /\ d1 \in sent.seen /\ d1 # sent.url)
      => /\ sent.resp.status = "conflict"
         /\ Committed[sent.alias] = d1

\* C2: of two creates of one alias with different urls that overlap in time,
\* exactly one is answered "created": a create is never answered "created"
\* when another url was acked for its alias while it was in flight.
C2_OneConcurrentCreateSucceeds ==
  (sent.kind = "create" /\ sent.resp.status = "created")
    => acked[sent.alias] \ (sent.seen \cup {sent.url}) = {}

\* C3: when a create of an absent alias a with a non-empty url d has been
\* answered "created", every resolve of a that starts afterwards is answered
\* with a redirect to d.
C3_CreateThenResolve ==
  \A d \in Urls \ {""} :
    (sent.kind = "resolve" /\ d \in sent.seen /\ first[sent.alias] = d)
      => sent.resp = Redirect(d)

\* C4: a create with an empty alias or an empty url never begins a write
\* transaction and is answered "bad request"; no committed record has an
\* empty alias or an empty url.
C4_InvalidRecordIsRejected ==
  /\ \A r \in DOMAIN reqs :
       (reqs[r].kind = "create" /\ (reqs[r].alias = "" \/ reqs[r].url = ""))
         => reqs[r].task \notin {"wtxn", "put", "finished"}
  /\ (sent.kind = "create" /\ (sent.alias = "" \/ sent.url = ""))
       => sent.resp.status = "bad request"
  /\ \A d \in Dirs, a \in Aliases :
       disk[d].kv[a] # "" /\ disk[d].kv[""] = Absent

\* C5: a resolve whose read transaction or lookup failed is not answered the
\* way a miss is answered.
C5_ReadFailureIsNotAMiss ==
  (sent.kind = "resolve" /\ sent.err # "") => sent.resp # RootResponse(Absent)

\* C6: a resolve of an alias that no create has committed is answered as a
\* miss (the redirect to "/"), whatever creates of other aliases did meanwhile.
C6_NeverCreatedIsAMiss ==
  (sent.kind = "resolve" /\ first[sent.alias] = Absent)
    => sent.resp = Redirect("/")

\* C6 witness: a miss was answered for an alias never committed, by a resolve
\* that began when another alias was in the committed table.
C6_Witness ==
  /\ sent.kind = "resolve"
  /\ first[sent.alias] = Absent
  /\ sent.resp = Redirect("/")
  /\ \E b \in Aliases : sent.begin[b] # Absent

\* C7: after a stop with no request in flight, the restarted process serves
\* the records that were committed before the stop.
C7_DurableAcrossRestart ==
  (proc = "serving" /\ dir > 1 /\ clean /\ first = EmptyTable)
    => /\ disk[dir].kv = disk[dir - 1].kv
       /\ sent.kind = "resolve" => sent.resp = RootResponse(disk[dir - 1].kv[sent.alias])

\* C8: a read transaction's lookups read the table as it was committed when
\* the transaction began, whatever was committed since; and only the puts of
\* committed write transactions are in the committed table or in a read view.
C8_SnapshotIsolation ==
  /\ \A r \in DOMAIN reqs : reqs[r].pc = "rtxn" => ReadView(r) = reqs[r].begin
  /\ (sent.kind = "resolve" /\ sent.err = "")
       => sent.resp = RootResponse(sent.begin[sent.alias])
  /\ proc = "serving" =>
       \A a \in Aliases :
         /\ Committed[a] # Absent => first[a] # Absent
         /\ \A r \in DOMAIN reqs :
              (reqs[r].pc = "rtxn" /\ ReadView(r)[a] # Absent) => first[a] # Absent

\* C8 witness: a read transaction is open, a create has committed its alias
\* since it began, and its view still does not hold the alias.
C8_Witness ==
  \E r \in DOMAIN reqs :
    /\ reqs[r].pc = "rtxn"
    /\ reqs[r].begin[reqs[r].alias] = Absent
    /\ Committed[reqs[r].alias] # Absent
    /\ DbGet(ReadView(r), reqs[r].alias) = Absent

\* The write transactions that are live.
WriteTxns ==
  Cardinality({r \in Reqs : InWriteTxn(r)}) + (IF MainInWriteTxn THEN 1 ELSE 0)

\* C9: at most one write transaction is live, main's startup transaction
\* counted; while one is live no task gets out of write_txn() with another.
C9_SingleWriter ==
  /\ [](WriteTxns <= 1)
  /\ [][WriteTxns > 0 => \A r \in Reqs : ~Task_WriteTxn(r)]_vars

\* C9 witness: a task waits in write_txn() while another task's write
\* transaction is live.
C9_Witness ==
  \E r1, r2 \in DOMAIN reqs : InWriteTxn(r1) /\ reqs[r2].task = "queued"

HandlerInStore(r) == reqs[r].pc = "rtxn"

\* C11: no store operation runs on the runtime thread that serves requests:
\* the handler of a request is never itself inside a store call, it only
\* awaits the task the store work was handed to.
C11_StoreOpsOffloaded ==
  \A r \in DOMAIN reqs : ~HandlerInStore(r) /\ reqs[r].pc = "awaiting"

\* C13: a create is answered "bad request" when its alias or url is empty,
\* "conflict" when a create of its alias had been answered "created" before
\* it arrived, and otherwise "created" with its alias and url echoed; it is
\* answered "created" only when its own write was committed.
C13_CreateOutcome ==
  sent.kind = "create" =>
    /\ (sent.alias = "" \/ sent.url = "") => sent.resp.status = "bad request"
    /\ (sent.alias # "" /\ sent.url # "" /\ sent.seen # {})
         => sent.resp.status = "conflict"
    /\ sent.resp.status = "created"
         => /\ sent.resp.alias = sent.alias
            /\ sent.resp.url = sent.url
            /\ sent.err = ""

\* C14: every step of a resolve, whatever its outcome (hit, miss, failing
\* read_txn, failing get), leaves the committed tables and the live write
\* transactions as they were, and a resolve never has a blocking task.
C14_ResolveIsPure ==
  /\ [][(\/ \E a \in PathAliases : Root_ReadTxn(a) \/ Root_ReadTxnFail(a)
         \/ \E r \in Reqs : Root_Get(r) \/ Root_GetFail(r))
          => (disk' = disk /\ WriteTxns' = WriteTxns)]_vars
  /\ [](\A r \in DOMAIN reqs :
          reqs[r].kind = "resolve" => (reqs[r].task = "none" /\ ~InWriteTxn(r)))

\* C14 witness: a resolve was answered with a stored url while a create holds
\* a write transaction.
C14_Witness ==
  /\ sent.kind = "resolve"
  /\ sent.resp.location \in Urls \ {""}
  /\ Committed[sent.alias] = sent.resp.location
  /\ WriteTxns = 1

\* The resolves that have begun their read transaction and not yet returned.
OpenResolves == {r \in DOMAIN reqs : reqs[r].pc = "rtxn"}

\* C15: the read transactions open in the environment are exactly those of
\* the resolves that have not returned yet: a resolve that returned, with a
\* hit, a miss or an error, has ended its read transaction.
C15_ReadTxnEnded == readers = Cardinality(OpenResolves)

\* C15 witness: a resolve whose lookup failed has returned while another
\* resolve still holds its read transaction.
C15_Witness ==
  /\ sent.kind = "resolve"
  /\ sent.err = "get"
  /\ readers = 1
  /\ Cardinality(OpenResolves) = 1

\* C16: while the process serves, the committed url of every alias is the url
\* of the create of that alias whose write transaction committed last, and a
\* resolve that began after that commit is answered with it.
C16_LastCommitWins ==
  /\ proc = "serving" => \A a \in Aliases : Committed[a] = last[a]
  /\ (sent.kind = "resolve" /\ sent.begin[sent.alias] = last[sent.alias])
       => sent.resp = RootResponse(last[sent.alias])
  /\ proc = "serving" =>
       \A r \in DOMAIN reqs :
         (reqs[r].pc = "rtxn" /\ reqs[r].begin = Committed)
           => DbGet(ReadView(r), reqs[r].alias) = last[reqs[r].alias]

\* C16 witness: an alias was created twice with different urls and a resolve
\* was answered with the url committed last.
C16_Witness ==
  /\ sent.kind = "resolve"
  /\ first[sent.alias] = "x"
  /\ last[sent.alias] = "y"
  /\ sent.resp = Redirect("y")

\* The aliases of a table.
Present(t) == {a \in Aliases : t[a] # Absent}

\* C18: while the process runs, no step takes an alias out of the committed
\* table; every alias a resolve was answered a stored url for is still in
\* it, and a resolve of such an alias that begins later reads a stored url.
C18_AliasesOnlyGrow ==
  /\ [][(proc = "serving" /\ proc' = "serving")
          => Present(Committed) \subseteq Present(Committed')]_vars
  /\ [](proc = "serving" => found \subseteq Present(Committed))
  /\ [][\A a \in PathAliases :
          (a \in found /\ Root_ReadTxn(a))
            => RootResponse(DbGet(reqs'[Len(reqs')].txn, a)) # RootResponse(Absent)]_vars

\* C18 witness: a resolve of an alias that was answered a stored url before
\* holds a read transaction in which the alias is present.
C18_Witness ==
  \E r \in DOMAIN reqs :
    /\ reqs[r].pc = "rtxn"
    /\ reqs[r].alias \in found
    /\ DbGet(ReadView(r), reqs[r].alias) # Absent

\* C19: a request is in flight only while main serves, which is after the
\* startup transaction that created the named database has committed: the
\* database of the running environment is there and main holds no write
\* transaction.
C19_StartupOrdering ==
  /\ proc = "serving" => (disk[dir].named /\ ~MainInWriteTxn)
  /\ reqs # <<>> => (proc = "serving" /\ disk[dir].named /\ ~MainInWriteTxn)
  /\ MainInWriteTxn => (reqs = <<>> /\ WriteTxns = 1)

\* C19 witness: the restarted process serves a create that holds the write
\* transaction.
C19_Witness ==
  /\ dir > 1
  /\ proc = "serving"
  /\ \E r \in DOMAIN reqs : InWriteTxn(r)

\* An abandoned create of (a, u) whose task has not committed yet.
AbandonedPending(a, u) ==
  \E r \in DOMAIN reqs :
    /\ reqs[r].pc = "cancelled"
    /\ reqs[r].alias = a
    /\ reqs[r].url = u
    /\ reqs[r].task \in {"queued", "wtxn", "put"}

\* C12: the step that abandons a create leaves its task, its transaction and
\* the table as they were; an abandoned create of a valid alias never aborts;
\* when an abandoned create of (a, u) is pending and the table does not map a
\* to u, then eventually the table maps a to u.
C12_AbandonedCreateCommits ==
  /\ [][\A r \in DOMAIN reqs :
          (reqs[r].pc = "awaiting" /\ Len(reqs') = Len(reqs)
             /\ reqs'[r].pc = "cancelled")
            => /\ disk' = disk
               /\ reqs'[r].task = reqs[r].task
               /\ reqs'[r].txn = reqs[r].txn]_vars
  /\ [](\A r \in DOMAIN reqs :
          (reqs[r].pc = "cancelled" /\ DbPutOk(reqs[r].alias))
            => reqs[r].task # "panicked")
  /\ \A p \in Payloads :
       (DbPutOk(p.alias) /\ AbandonedPending(p.alias, p.url)
          /\ Committed[p.alias] # p.url)
         ~> (proc = "serving" /\ Committed[p.alias] = p.url)

\* C12 witness: the task of an abandoned create has committed, and the table
\* maps its alias to its url.
C12_Witness ==
  \E r \in DOMAIN reqs :
    /\ reqs[r].pc = "cancelled"
    /\ reqs[r].task = "finished"
    /\ Committed[reqs[r].alias] = reqs[r].url

\* The creates waiting in write_txn() for the writer mutex.
Waiting == {r \in DOMAIN reqs : reqs[r].task = "queued"}

\* The creates in flight.
Creates == {r \in DOMAIN reqs : reqs[r].kind = "create"}

\* C17: whenever a create waits for the writer mutex, a task of the blocking
\* pool can step; every write transaction of a create is eventually ended,
\* by commit or, when put or commit fails, by the unwinding of its task; and
\* when a create waits, eventually every create in flight has been answered.
C17_NoWriterLockLeak ==
  /\ [](Waiting # {} => ENABLED TaskStep)
  /\ (\E r \in Reqs : InWriteTxn(r)) ~> (\A r \in Reqs : ~InWriteTxn(r))
  /\ (Waiting # {}) ~> (Creates = {})

\* C17 witness: a create holds the write transaction after the transaction
\* of another create was aborted by a failing put or commit, while a third
\* create waits.
C17_Witness ==
  \E r1, r2 \in DOMAIN reqs :
    /\ reqs[r1].task = "panicked"
    /\ reqs[r1].err \in {"put", "commit"}
    /\ InWriteTxn(r2)
    /\ Waiting # {}

====
